---- MODULE Spec2Model ----
(***************************************************************************)
(* DeforMA time-series analysis engine.                                    *)
(*                                                                         *)
(* The repository holds two implementations of the engine:                 *)
(*   processing/ts_analysis.py  (impl = "processing"; functions _xxx)      *)
(*   analysis/ts_analysis.py    (impl = "analysis";   functions xxx)       *)
(* Both are modelled.  A run executes main() of one of them on a closed    *)
(* batch of database rows, an events catalog and a stable (reference       *)
(* model) configuration.                                                   *)
(*                                                                         *)
(* Python floats are modelled as exact rationals [n |-> num, d |-> den],   *)
(* den > 0, in lowest terms; None is the record with den = 0.  Dates are   *)
(* day numbers.                                                            *)
(***************************************************************************)
EXTENDS Integers, Sequences, FiniteSets, TLC

VARIABLES
  impl,        \* which script runs: "processing" or "analysis"
  pc,          \* position of main()
  rows,        \* rows returned by the epoch query (ORDER BY station, frame, date)
  catalog,     \* entries of events.yaml, in file order
  stable,      \* entries of stable.yaml: station -> entry
  analysis,    \* the --analysis selection: subset of {"offsets","detrend","outliers"}
  include_D,   \* --apply-deformation (analysis script only)
  events,      \* processing: list returned by _load_events
  events_map,  \* analysis: dict returned by load_events
  stable_conf, \* dict returned by _load_stable / load_stable
  cncecu,      \* (station, frame, date) -> <<cn, ce, cu>>
  dndedu,      \* (station, frame, date) -> <<dn, de, du>>
  grp,         \* index of the (station, frame) group being processed
  a_i,         \* apply_offsets: index of the current row of the group
  a_idx,       \* apply_offsets: event cursor idx (0-based, as in the code)
  a_cum,       \* apply_offsets: <<cumN, cumE, cumU>>
  a_added,     \* apply_offsets: how often each event position was added (history)
  mad_thresh,  \* --mad-thresh (processing script only)
  onoeou,      \* (station, frame, date) -> <<on, oe, ou>>
  wide,        \* rows written to time_series_analysis.csv, in order
  long         \* rows written to time_series_long.csv, in order (processing script)

vars == <<impl, pc, rows, catalog, stable, analysis, include_D, events, events_map,
          stable_conf, cncecu, dndedu, grp, a_i, a_idx, a_cum, a_added,
          mad_thresh, onoeou, wide, long>>

-----------------------------------------------------------------------------
(* Bounds of the model *)

MaxDate == 3
MaxEvents == 2
MaxEpochs == 3
MaxSamples == 5

Dates == 1..MaxDate

-----------------------------------------------------------------------------
(* Exact arithmetic standing for Python floats *)

Abs(x) == IF x < 0 THEN -x ELSE x

RECURSIVE GCD(_, _)
GCD(a, b) == IF b = 0 THEN a ELSE GCD(b, a % b)

LCM(a, b) == (a \div GCD(a, b)) * b

R(num, den) ==
  LET g == GCD(Abs(num), den)
  IN  [n |-> num \div g, d |-> den \div g]

Int2R(k) == [n |-> k, d |-> 1]
Zero == Int2R(0)
None == [n |-> 0, d |-> 0]
IsNone(a) == a.d = 0

RAdd(a, b) ==
  LET l == LCM(a.d, b.d)
  IN  R(a.n * (l \div a.d) + b.n * (l \div b.d), l)
RNeg(a) == [n |-> -a.n, d |-> a.d]
RSub(a, b) == RAdd(a, RNeg(b))
RMul(a, b) ==
  LET g1 == GCD(Abs(a.n), b.d)
      g2 == GCD(Abs(b.n), a.d)
  IN  R((a.n \div g1) * (b.n \div g2), (a.d \div g2) * (b.d \div g1))
RInv(a) == IF a.n > 0 THEN [n |-> a.d, d |-> a.n] ELSE [n |-> -a.d, d |-> -a.n]
RDiv(a, b) == RMul(a, RInv(b))
RLe(a, b) == a.n * b.d <= b.n * a.d
RLt(a, b) == a.n * b.d < b.n * a.d
RAbs(a) == [n |-> Abs(a.n), d |-> a.d]

RECURSIVE RSum(_)
RSum(s) == IF s = <<>> THEN Zero ELSE RAdd(RSum(SubSeq(s, 1, Len(s) - 1)), s[Len(s)])

\* a or 0.0
OrZero(a) == IF IsNone(a) \/ a.n = 0 THEN Zero ELSE a

-----------------------------------------------------------------------------
(* Generic sequence helpers *)

\* list.sort(key=date): stable, ascending
RECURSIVE InsertByDate(_, _)
InsertByDate(s, x) ==
  IF s = <<>> THEN <<x>>
  ELSE IF s[Len(s)].date <= x.date THEN Append(s, x)
  ELSE Append(InsertByDate(SubSeq(s, 1, Len(s) - 1), x), s[Len(s)])

RECURSIVE SortByDate(_)
SortByDate(s) ==
  IF s = <<>> THEN <<>>
  ELSE InsertByDate(SortByDate(SubSeq(s, 1, Len(s) - 1)), s[Len(s)])

Range(s) == {s[i] : i \in 1..Len(s)}

Get(m, k, default) == IF k \in DOMAIN m THEN m[k] ELSE default
Put(m, k, v) == (k :> v) @@ m

RECURSIVE SeqOfSet(_)
SeqOfSet(S) ==
  IF S = {} THEN <<>>
  ELSE LET x == CHOOSE y \in S : \A z \in S : y <= z
       IN  <<x>> \o SeqOfSet(S \ {x})

-----------------------------------------------------------------------------
(* Grouping of the fetched rows by (station, frame) *)

Front(s) == SubSeq(s, 1, Len(s) - 1)
Last(s) == s[Len(s)]

Key(r) == <<r.station, r.frame>>

\* keys of the groups dict, in insertion order
RECURSIVE GroupKeys(_)
GroupKeys(rs) ==
  IF rs = <<>> THEN <<>>
  ELSE LET ks == GroupKeys(Front(rs))
       IN  IF \E i \in 1..Len(ks) : ks[i] = Key(Last(rs)) THEN ks
           ELSE Append(ks, Key(Last(rs)))

RowsOfKey(rs, key) == SelectSeq(rs, LAMBDA r : Key(r) = key)

\* analysis main: rows_by_key[k], sorted by date
rows_by_key(rs, key) == SortByDate(RowsOfKey(rs, key))

RawField(r, c) == CASE c = "N" -> r.n [] c = "E" -> r.e [] c = "U" -> r.u

\* position of a component in a (N, E, U) tuple
Comp2Ix(c) == CASE c = "N" -> 1 [] c = "E" -> 2 [] c = "U" -> 3

\* processing main: comp[c] of a group, values converted to mm, sorted by date
scale == 1000
comp(rs, key, c) ==
  LET own == RowsOfKey(rs, key)
  IN  SortByDate([i \in 1..Len(own) |->
        [date |-> own[i].date,
         v |-> RMul(OrZero(RawField(own[i], c)), Int2R(scale))]])

-----------------------------------------------------------------------------
(* Event Offset Calculator *)

\* an entry of events.yaml without a date has date = NoDate
NoDate == 0

\* a date text that strptime does not accept
BadDate == -1

\* processing: _load_events keeps every entry it can convert, in file order, whatever
\* its flag; _parse_date raises on an entry without a date, which is skipped
_load_events(cat) ==
  LET ok == SelectSeq(cat, LAMBDA e : e.date # NoDate)
  IN  [i \in 1..Len(ok) |->
         [flag |-> ok[i].flag, date |-> ok[i].date, station |-> ok[i].station,
          N |-> Int2R(ok[i].N), E |-> Int2R(ok[i].E), U |-> Int2R(ok[i].U)]]

\* variant of the calculator that drops the date test (every matching event counts)
RECURSIVE _compute_offsets_any_date(_, _, _)
_compute_offsets_any_date(evs, sta, d) ==
  IF evs = <<>> THEN <<Zero, Zero, Zero>>
  ELSE LET c == _compute_offsets_any_date(Front(evs), sta, d)
           e == Last(evs)
       IN  IF e.station = "ALL" \/ e.station = sta
           THEN <<RAdd(c[1], e.N), RAdd(c[2], e.E), RAdd(c[3], e.U)>>
           ELSE c

\* variant of the calculator that counts an event on its own date only
RECURSIVE _compute_offsets_on_date(_, _, _)
_compute_offsets_on_date(evs, sta, d) ==
  IF evs = <<>> THEN <<Zero, Zero, Zero>>
  ELSE LET c == _compute_offsets_on_date(Front(evs), sta, d)
           e == Last(evs)
       IN  IF e.date = d /\ (e.station = "ALL" \/ e.station = sta)
           THEN <<RAdd(c[1], e.N), RAdd(c[2], e.E), RAdd(c[3], e.U)>>
           ELSE c

\* processing: sum of every event at or before d whose station is sta or ALL
RECURSIVE _compute_offsets_for_station_date(_, _, _)
_compute_offsets_for_station_date(evs, sta, d) ==
  IF evs = <<>> THEN <<Zero, Zero, Zero>>
  ELSE LET c == _compute_offsets_for_station_date(Front(evs), sta, d)
           e == Last(evs)
       IN  IF e.date <= d /\ (e.station = "ALL" \/ e.station = sta)
           THEN <<RAdd(c[1], e.N), RAdd(c[2], e.E), RAdd(c[3], e.U)>>
           ELSE c

\* analysis: events appended per station key, in file order
RECURSIVE load_events_append(_)
load_events_append(cat) ==
  IF cat = <<>> THEN <<>>
  ELSE LET m == load_events_append(Front(cat))
           it == Last(cat)
       IN  Put(m, it.station,
               Append(Get(m, it.station, <<>>),
                      [flag |-> it.flag, date |-> it.date,
                       N |-> Int2R(it.N), E |-> Int2R(it.E), U |-> Int2R(it.U)]))

\* analysis: load_events raises IndexError on an entry without a date,
\* str(... or "").split()[0], and nothing catches it
load_events_raises(cat) == \E i \in 1..Len(cat) : cat[i].date = NoDate

\* variant of the loader that keeps each station's events in catalog order
load_events_unsorted(cat) == load_events_append(cat)

\* analysis: load_events, each station's list sorted by date
load_events(cat) ==
  LET m == load_events_append(cat)
  IN  [s \in DOMAIN m |-> SortByDate(m[s])]

\* analysis: the flags apply_offsets sums
allowed(incl_D) == {"E", "R"} \cup (IF incl_D THEN {"D"} ELSE {})

\* analysis: evs of apply_offsets for one station
apply_offsets_evs(emap, sta, incl_D) ==
  SelectSeq(Get(emap, sta, <<>>), LAMBDA e : e.flag \in allowed(incl_D))

\* analysis: one pass of the while body, cum += evs[idx] / 1000.0
apply_offsets_add(cum, e) ==
  <<RAdd(cum[1], RDiv(e.N, Int2R(1000))),
    RAdd(cum[2], RDiv(e.E, Int2R(1000))),
    RAdd(cum[3], RDiv(e.U, Int2R(1000)))>>

\* analysis: the while loop of apply_offsets at one date, <<cum, idx>> when it ends
RECURSIVE apply_offsets_while(_, _, _, _)
apply_offsets_while(evs, idx, cum, date) ==
  IF idx < Len(evs) /\ evs[idx + 1].date <= date
  THEN apply_offsets_while(evs, idx + 1, apply_offsets_add(cum, evs[idx + 1]), date)
  ELSE <<cum, idx>>

\* analysis: the loop of apply_offsets over the rows of a group from row i on
RECURSIVE apply_offsets_rows(_, _, _, _, _, _)
apply_offsets_rows(rws, i, evs, idx, cum, out) ==
  IF i > Len(rws) THEN out
  ELSE LET w == apply_offsets_while(evs, idx, cum, rws[i].date)
       IN  apply_offsets_rows(rws, i + 1, evs, w[2], w[1], Put(out, rws[i].date, w[1]))

\* analysis: apply_offsets for one group (date -> <<cumN, cumE, cumU>>)
apply_offsets(rws, evs) ==
  apply_offsets_rows(rws, 1, evs, 0, <<Zero, Zero, Zero>>, <<>>)

-----------------------------------------------------------------------------
(* Reference Model Loader (stable.yaml) *)

\* conf.get(k, 0.0) of a velocity or correction key (None stands for a missing key)
OrDefault(a) == IF IsNone(a) THEN Zero ELSE a

\* method of an entry: str(conf.get("method", "M1")).upper()
MethodOf(conf) == IF conf.method = "" THEN "M1" ELSE conf.method

StableM1(conf) ==
  [method |-> "M1",
   N |-> OrDefault(conf.N), E |-> OrDefault(conf.E), U |-> OrDefault(conf.U),
   CN |-> OrDefault(conf.CN), CE |-> OrDefault(conf.CE), CU |-> OrDefault(conf.CU),
   start |-> 0, end |-> 0]

StableM2(start, end) ==
  [method |-> "M2", N |-> Zero, E |-> Zero, U |-> Zero,
   CN |-> Zero, CE |-> Zero, CU |-> Zero, start |-> start, end |-> end]

\* processing: _parse_date of a missing or unreadable window bound raises, and
\* the handler around the whole loop then returns {}
_load_stable(y) ==
  IF \E sta \in DOMAIN y :
       MethodOf(y[sta]) = "M2" /\ y[sta].has_rw /\ (y[sta].start <= 0 \/ y[sta].end <= 0)
  THEN <<>>
  ELSE [sta \in DOMAIN y |->
          IF MethodOf(y[sta]) = "M2" /\ y[sta].has_rw
          THEN StableM2(y[sta].start, y[sta].end)
          ELSE StableM1(y[sta])]

\* analysis: load_stable; a missing window bound is kept as None (0)
load_stable(y) ==
  [sta \in DOMAIN y |->
     IF MethodOf(y[sta]) = "M2"
     THEN StableM2(IF y[sta].has_rw THEN y[sta].start ELSE 0,
                   IF y[sta].has_rw THEN y[sta].end ELSE 0)
     ELSE StableM1(y[sta])]

-----------------------------------------------------------------------------
(* Detrend Engine, processing script *)

_days_between(a, b) == Int2R(a - b)

DaysPerYear == R(1461, 4)   \* 365.25

\* variant of the velocity detrend with a 365-day year
_detrend_M1_year365(rws, vel_mm_yr, c_mm, t0) ==
  [i \in 1..Len(rws) |->
     LET dt_years == RDiv(_days_between(rws[i].date, t0), Int2R(365))
         pred == RMul(vel_mm_yr, dt_years)
     IN  [date |-> rws[i].date, v |-> RAdd(RSub(rws[i].v, pred), c_mm)]]

\* _detrend_M1: val - vel * years(t0, d) + c for every sample
_detrend_M1(rws, vel_mm_yr, c_mm, t0) ==
  [i \in 1..Len(rws) |->
     LET dt_years == RDiv(_days_between(rws[i].date, t0), DaysPerYear)
         pred == RMul(vel_mm_yr, dt_years)
     IN  [date |-> rws[i].date, v |-> RAdd(RSub(rws[i].v, pred), c_mm)]]

\* _linreg: <<slope, intercept>> by closed-form sums
_linreg(x, y) ==
  LET n == Len(x)
      sx == RSum(x)
      sy == RSum(y)
      sxx == RSum([i \in 1..n |-> RMul(x[i], x[i])])
      sxy == RSum([i \in 1..n |-> RMul(x[i], y[i])])
      den == RSub(RMul(Int2R(n), sxx), RMul(sx, sx))
  IN  IF n < 2 THEN <<Zero, Zero>>
      ELSE IF den = Zero THEN <<Zero, RDiv(sy, Int2R(n))>>
      ELSE LET slope == RDiv(RSub(RMul(Int2R(n), sxy), RMul(sx, sy)), den)
           IN  <<slope, RDiv(RSub(sy, RMul(slope, sx)), Int2R(n))>>

InWindow(d, wstart, wend) == wstart <= d /\ d <= wend

\* _detrend_M2: slope of the window removed from the whole series, then recentred
_detrend_M2(rws, wstart, wend) ==
  LET win == SelectSeq(rws, LAMBDA r : InWindow(r.date, wstart, wend))
      x_win == [i \in 1..Len(win) |-> _days_between(win[i].date, wstart)]
      y_win == [i \in 1..Len(win) |-> win[i].v]
      slope_day == _linreg(x_win, y_win)[1]
      adjusted == [i \in 1..Len(rws) |->
                     [date |-> rws[i].date,
                      v |-> RSub(rws[i].v,
                                 RMul(slope_day, _days_between(rws[i].date, wstart)))]]
      win_adj == SelectSeq(adjusted, LAMBDA r : InWindow(r.date, wstart, wend))
      win_vals == [i \in 1..Len(win_adj) |-> win_adj[i].v]
      mean_w == RDiv(RSum(win_vals), Int2R(Len(win_vals)))
  IN  IF rws = <<>> THEN rws
      ELSE IF Len(x_win) < 2 THEN rws
      ELSE IF win_vals # <<>>
           THEN [i \in 1..Len(adjusted) |->
                   [date |-> adjusted[i].date, v |-> RSub(adjusted[i].v, mean_w)]]
           ELSE adjusted

-----------------------------------------------------------------------------
(* Detrend Engine, analysis script *)

NoneTriple == <<None, None, None>>

Complete(r) == ~IsNone(r.n) /\ ~IsNone(r.e) /\ ~IsNone(r.u)

\* (date - t0).days / 365.25
YearsSince(d, t0) == RDiv(Int2R(d - t0), DaysPerYear)

\* detrend_M1: date -> (dn, de, du); the constant is inside the subtracted term
detrend_M1(rws, stab) ==
  IF rws = <<>> THEN <<>>
  ELSE LET t0 == rws[1].date
           vN == RDiv(stab.N, Int2R(1000))
           vE == RDiv(stab.E, Int2R(1000))
           vU == RDiv(stab.U, Int2R(1000))
           cN == RDiv(stab.CN, Int2R(1000))
           cE == RDiv(stab.CE, Int2R(1000))
           cU == RDiv(stab.CU, Int2R(1000))
           RowAt(d) == LET i == CHOOSE j \in 1..Len(rws) :
                                  rws[j].date = d /\ \A k \in j+1..Len(rws) : rws[k].date # d
                       IN  rws[i]
           One(r) ==
             IF ~Complete(r) THEN NoneTriple
             ELSE LET years == YearsSince(r.date, t0)
                  IN  <<RSub(r.n, RAdd(RMul(vN, years), cN)),
                        RSub(r.e, RAdd(RMul(vE, years), cE)),
                        RSub(r.u, RAdd(RMul(vU, years), cU))>>
       IN  [d \in {rws[i].date : i \in 1..Len(rws)} |-> One(RowAt(d))]

\* slope() nested in detrend_M2, over the positions idxs of x and y
slope(x, y, idxs) ==
  LET n == Len(idxs)
      sx == RSum([k \in 1..n |-> x[idxs[k]]])
      sy == RSum([k \in 1..n |-> y[idxs[k]]])
      sxx == RSum([k \in 1..n |-> RMul(x[idxs[k]], x[idxs[k]])])
      sxy == RSum([k \in 1..n |-> RMul(x[idxs[k]], y[idxs[k]])])
      den == RSub(RMul(Int2R(n), sxx), RMul(sx, sx))
  IN  IF den = Zero THEN Zero
      ELSE RDiv(RSub(RMul(Int2R(n), sxy), RMul(sx, sy)), den)

\* detrend_M2 raises ValueError in strptime when both bounds are given and one is
\* not a date; the bounds are parsed after the test on the number of samples
detrend_M2_raises(rws, ref_start, ref_end) ==
  /\ rws # <<>>
  /\ Len(SelectSeq(rws, LAMBDA r : Complete(r))) >= 3
  /\ ref_start # 0 /\ ref_end # 0
  /\ (ref_start = BadDate \/ ref_end = BadDate)

\* detrend_M2: date -> (dn, de, du)
detrend_M2(rws, ref_start, ref_end) ==
  IF rws = <<>> THEN <<>>
  ELSE LET t0 == rws[1].date
           full == SelectSeq(rws, LAMBDA r : Complete(r))
           T == [i \in 1..Len(full) |-> Int2R(full[i].date - t0)]
           N == [i \in 1..Len(full) |-> full[i].n]
           E == [i \in 1..Len(full) |-> full[i].e]
           U == [i \in 1..Len(full) |-> full[i].u]
           D == [i \in 1..Len(full) |-> full[i].date]
           idxs == IF ref_start # 0 /\ ref_end # 0
                   THEN SeqOfSet({i \in 1..Len(D) : InWindow(D[i], ref_start, ref_end)})
                   ELSE [i \in 1..Len(T) |-> i]
           sN == slope(T, N, idxs)
           sE == slope(T, E, idxs)
           sU == slope(T, U, idxs)
           t_ref == RDiv(RSum([k \in 1..Len(idxs) |-> T[idxs[k]]]), Int2R(Len(idxs)))
           PosOf(d) == CHOOSE j \in 1..Len(D) :
                         D[j] = d /\ \A k \in j+1..Len(D) : D[k] # d
           One(i) == <<RSub(N[i], RMul(sN, RSub(T[i], t_ref))),
                       RSub(E[i], RMul(sE, RSub(T[i], t_ref))),
                       RSub(U[i], RMul(sU, RSub(T[i], t_ref)))>>
       IN  IF Len(T) < 3 THEN [d \in {rws[i].date : i \in 1..Len(rws)} |-> NoneTriple]
           ELSE IF Len(idxs) < 2 THEN [d \in {D[i] : i \in 1..Len(D)} |-> NoneTriple]
           ELSE [d \in {D[i] : i \in 1..Len(D)} |-> One(PosOf(d))]

-----------------------------------------------------------------------------
(* main(): per-group pieces *)

Selected(a) == a \in analysis

DatesOf(rws) == {rws[i].date : i \in 1..Len(rws)}

\* value a per-date dict holds for d after the series was written into it
ValAt(series, d) ==
  LET i == CHOOSE j \in 1..Len(series) :
             series[j].date = d /\ \A k \in j+1..Len(series) : series[k].date # d
  IN  series[i].v

-----------------------------------------------------------------------------
(* Outlier Detector *)

RECURSIVE InsertR(_, _)
InsertR(s, x) ==
  IF s = <<>> THEN <<x>>
  ELSE IF RLe(Last(s), x) THEN Append(s, x)
  ELSE Append(InsertR(Front(s), x), Last(s))

\* sorted(vals), ascending
RECURSIVE sorted(_)
sorted(s) == IF s = <<>> THEN <<>> ELSE InsertR(sorted(Front(s)), Last(s))

\* variant that centres on the arithmetic mean instead of the middle value
MeanOf(vals) == RDiv(RSum(vals), Int2R(Len(vals)))

\* sorted(vals)[len(vals)//2]: the upper of the two middle values for an even count
MiddleOf(vals) == sorted(vals)[(Len(vals) \div 2) + 1]

\* [abs(v - med) for v in vals]
AbsDev(vals, med) == [i \in 1..Len(vals) |-> RAbs(RSub(vals[i], med))]

ValuesOf(series) == [i \in 1..Len(series) |-> series[i].v]

ScoreFactor == R(6745, 10000)

\* processing: _mad
_mad(vals) == IF vals = <<>> THEN Zero ELSE MiddleOf(AbsDev(vals, MiddleOf(vals)))

\* variant of _flag_outliers without the mad == 0 branch that compares
\* 0.6745 * |v - med| >= thresh * mad
_flag_outliers_nonstrict(series, thresh) ==
  IF series = <<>> THEN <<>>
  ELSE LET vals == ValuesOf(series)
           med == MiddleOf(vals)
           mad == _mad(vals)
       IN  [d \in DatesOf(series) |->
              IF RLe(RMul(thresh, mad),
                     RMul(ScoreFactor, RAbs(RSub(ValAt(series, d), med))))
              THEN 1 ELSE 0]

\* processing: _flag_outliers, {date: 0/1}; no minimum count, flags 0 when mad == 0
_flag_outliers(series, thresh) ==
  IF series = <<>> THEN <<>>
  ELSE LET vals == ValuesOf(series)
           med == MiddleOf(vals)
           mad == _mad(vals)
       IN  [d \in DatesOf(series) |->
              IF mad = Zero THEN 0
              ELSE LET z == RDiv(RMul(ScoreFactor, RAbs(RSub(ValAt(series, d), med))), mad)
                   IN  IF RLt(thresh, z) THEN 1 ELSE 0]

\* analysis: detect_outliers_mad, {date: 0/1}.  `mad or 1e-12`: with a zero MAD the
\* score is 0.6745e12 * (v - med), which exceeds thr for every deviation above
\* 5.2e-12, that is for every v # med of a series given to the micrometre.
detect_outliers_mad(series, thr) ==
  LET vals == ValuesOf(SelectSeq(series, LAMBDA p : ~IsNone(p.v)))
  IN  IF Len(vals) < 5 THEN [d \in DatesOf(series) |-> 0]
      ELSE LET med == MiddleOf(vals)
               mad == MiddleOf(AbsDev(vals, med))
           IN  [d \in DatesOf(series) |->
                  LET v == ValAt(series, d)
                  IN  IF IsNone(v) THEN 0
                      ELSE IF mad = Zero THEN (IF v # med THEN 1 ELSE 0)
                      ELSE LET score == RDiv(RMul(ScoreFactor, RSub(v, med)), mad)
                           IN  IF RLt(thr, RAbs(score)) THEN 1 ELSE 0]

\* analysis main: the nested _mad, the statements of detect_outliers_mad with 3.5
main_mad(series) == detect_outliers_mad(series, R(7, 2))

-----------------------------------------------------------------------------
(* main(): per-group pieces, continued *)

\* processing main: cn_map, ce_map, cu_map of a group (date -> <<cn, ce, cu>>)
_main_offsets(rs, key, evs) ==
  LET cN == comp(rs, key, "N")
  IN  [d \in DatesOf(cN) |-> _compute_offsets_for_station_date(evs, key[1], d)]

\* processing main: dn_map, de_map, du_map of a group (date -> <<dn, de, du>>)
_main_detrend(rs, key, sconf) ==
  LET sta == key[1]
      cN == comp(rs, key, "N")
      cE == comp(rs, key, "E")
      cU == comp(rs, key, "U")
  IN  IF sta \notin DOMAIN sconf THEN <<>>
      ELSE LET conf == sconf[sta]
           IN  IF conf.method = "M1"
               THEN LET dn == _detrend_M1(cN, conf.N, conf.CN, cN[1].date)
                        de == _detrend_M1(cE, conf.E, conf.CE, cE[1].date)
                        du == _detrend_M1(cU, conf.U, conf.CU, cU[1].date)
                    IN  [d \in DatesOf(cN) |-> <<ValAt(dn, d), ValAt(de, d), ValAt(du, d)>>]
               ELSE LET dn == _detrend_M2(cN, conf.start, conf.end)
                        de == _detrend_M2(cE, conf.start, conf.end)
                        du == _detrend_M2(cU, conf.start, conf.end)
                    IN  [d \in DatesOf(cN) |-> <<ValAt(dn, d), ValAt(de, d), ValAt(du, d)>>]

\* variant of the analysis detrend that hands back the raw values of a station
\* without a model
main_detrend_raw_default(rs, key, smap) ==
  LET srows == rows_by_key(rs, key)
  IN  IF key[1] \notin DOMAIN smap
      THEN [d \in DatesOf(srows) |->
              LET r == srows[CHOOSE i \in 1..Len(srows) : srows[i].date = d]
              IN  <<r.n, r.e, r.u>>]
      ELSE IF smap[key[1]].method = "M2"
           THEN detrend_M2(srows, smap[key[1]].start, smap[key[1]].end)
           ELSE detrend_M1(srows, smap[key[1]])

\* analysis main: the detrend of one group (date -> <<dn, de, du>>)
main_detrend(rs, key, smap) ==
  LET sta == key[1]
      srows == rows_by_key(rs, key)
  IN  IF sta \notin DOMAIN smap THEN [d \in DatesOf(srows) |-> NoneTriple]
      ELSE IF smap[sta].method = "M2"
           THEN detrend_M2(srows, smap[sta].start, smap[sta].end)
           ELSE detrend_M1(srows, smap[sta])

\* analysis main: the detrend of the group raises (nothing in main catches it)
main_detrend_raises(rs, key, smap) ==
  /\ key[1] \in DOMAIN smap
  /\ smap[key[1]].method = "M2"
  /\ detrend_M2_raises(rows_by_key(rs, key), smap[key[1]].start, smap[key[1]].end)

\* a per-date result stored under (station, frame, date)
Keyed(key, m) == [k \in {<<key[1], key[2], d>> : d \in DOMAIN m} |-> m[k[3]]]

ZeroTriple == <<Zero, Zero, Zero>>

\* variant of the processing outlier step that scores every component against
\* the N flags of the same date
_main_outliers_shared(rs, key, thresh) ==
  LET on == _flag_outliers(comp(rs, key, "N"), thresh)
  IN  [d \in DatesOf(comp(rs, key, "N")) |-> <<on[d], on[d], on[d]>>]

\* processing main: on_map, oe_map, ou_map of a group (date -> <<on, oe, ou>>);
\* the detector is given comp[k], the raw series in mm
_main_outliers(rs, key, thresh) ==
  LET on == _flag_outliers(comp(rs, key, "N"), thresh)
      oe == _flag_outliers(comp(rs, key, "E"), thresh)
      ou == _flag_outliers(comp(rs, key, "U"), thresh)
  IN  [d \in DatesOf(comp(rs, key, "N")) |-> <<on[d], oe[d], ou[d]>>]

\* analysis main: Ns, Es or Us of a group: per date the detrended value, or the
\* raw one where the detrended value is None
main_series(rs, key, dmap, c) ==
  LET srows == rows_by_key(rs, key)
  IN  [i \in 1..Len(srows) |->
         LET dt == Get(dmap, <<key[1], key[2], srows[i].date>>, NoneTriple)[Comp2Ix(c)]
         IN  [date |-> srows[i].date,
              v |-> IF ~IsNone(dt) THEN dt ELSE RawField(srows[i], c)]]

\* analysis main: the outlier flags of one group (date -> <<on, oe, ou>>)
main_outliers(rs, key, dmap) ==
  LET on == main_mad(main_series(rs, key, dmap, "N"))
      oe == main_mad(main_series(rs, key, dmap, "E"))
      ou == main_mad(main_series(rs, key, dmap, "U"))
  IN  [d \in DatesOf(rows_by_key(rs, key)) |-> <<on[d], oe[d], ou[d]>>]

\* the empty CSV field
Blank == None

\* variant of the record that writes 0 into a field that has no value
WideRowZeroFilled(sta, d, frame, raw, c, dt, o) ==
  LET fill(v) == IF v = None THEN Zero ELSE v
  IN  [station |-> sta, date |-> d, frame |-> frame,
       n |-> raw[1], e |-> raw[2], u |-> raw[3],
       cn |-> fill(c[1]), ce |-> fill(c[2]), cu |-> fill(c[3]),
       dn |-> fill(dt[1]), de |-> fill(dt[2]), du |-> fill(dt[3]),
       on |-> fill(o[1]), oe |-> fill(o[2]), ou |-> fill(o[3])]

\* one line of time_series_analysis.csv
WideRow(sta, d, frame, raw, c, dt, o) ==
  [station |-> sta, date |-> d, frame |-> frame,
   n |-> raw[1], e |-> raw[2], u |-> raw[3],
   cn |-> c[1], ce |-> c[2], cu |-> c[3],
   dn |-> dt[1], de |-> dt[2], du |-> dt[3],
   on |-> o[1], oe |-> o[2], ou |-> o[3]]

BlankTriple == <<Blank, Blank, Blank>>

\* processing main: x_map.get(iso, "") for the three maps of a computation
MapGet(m, d) == IF d \in DOMAIN m THEN m[d] ELSE BlankTriple

FlagTriple(t) == <<Int2R(t[1]), Int2R(t[2]), Int2R(t[3])>>

\* next((v for d, v in comp[k] if _to_iso(d) == iso), None): the first value of the date
FirstAt(series, d) ==
  LET i == CHOOSE j \in 1..Len(series) :
             series[j].date = d /\ \A k \in 1..(j - 1) : series[k].date # d
  IN  series[i].v

\* processing main: the wide rows of a group, one per date of its components
_main_rows(rs, key, cmap, dmap, omap) ==
  LET cN == comp(rs, key, "N")
      cE == comp(rs, key, "E")
      cU == comp(rs, key, "U")
      dates == SeqOfSet(DatesOf(cN) \cup DatesOf(cE) \cup DatesOf(cU))
  IN  [i \in 1..Len(dates) |->
         LET d == dates[i]
         IN  WideRow(key[1], d, key[2],
                     <<FirstAt(cN, d), FirstAt(cE, d), FirstAt(cU, d)>>,
                     MapGet(cmap, d), MapGet(dmap, d),
                     IF d \in DOMAIN omap THEN FlagTriple(omap[d]) ELSE BlankTriple)]

\* processing main, lines 590-595: the long rows of one wide row, a row per
\* component whose raw value is not None and per detrended value that is not ""
LongRows(r) ==
  LET tag(set, c, v) == [station |-> r.station, date |-> r.date, frame |-> r.frame,
                         set |-> set, component |-> c, value |-> v]
  IN  SelectSeq(<<tag("raw", "N", r.n), tag("raw", "E", r.e), tag("raw", "U", r.u),
                  tag("detrended", "N", r.dn), tag("detrended", "E", r.de),
                  tag("detrended", "U", r.du)>>,
                LAMBDA x : x.value # Blank)

\* processing main: the long rows of a group, in the order of its wide rows
RECURSIVE _main_long(_)
_main_long(wrows) ==
  IF wrows = <<>> THEN <<>> ELSE _main_long(Front(wrows)) \o LongRows(Last(wrows))

\* analysis main: the rows written for one group; a None becomes ""
main_rows(rs, key, cmap, dmap, omap) ==
  LET srows == rows_by_key(rs, key)
  IN  [i \in 1..Len(srows) |->
         LET k == <<key[1], key[2], srows[i].date>>
         IN  WideRow(srows[i].station, srows[i].date, srows[i].frame,
                     <<srows[i].n, srows[i].e, srows[i].u>>,
                     Get(cmap, k, NoneTriple), Get(dmap, k, NoneTriple),
                     IF k \in DOMAIN omap THEN FlagTriple(omap[k]) ELSE BlankTriple)]

\* analysis main: the rows of all groups from group g on
RECURSIVE main_write(_, _, _, _, _)
main_write(rs, g, cmap, dmap, omap) ==
  IF g > Len(GroupKeys(rs)) THEN <<>>
  ELSE main_rows(rs, GroupKeys(rs)[g], cmap, dmap, omap)
         \o main_write(rs, g + 1, cmap, dmap, omap)

\* analysis main: the phase after `phase`, by the --analysis selection
A_PhaseAfter(phase) ==
  IF phase = "start" /\ Selected("offsets") THEN "A_sweep"
  ELSE IF phase \in {"start", "A_sweep"} /\ Selected("detrend") THEN "A_detrend"
  ELSE IF phase \in {"start", "A_sweep", "A_detrend"} /\ Selected("outliers")
       THEN "A_outliers"
  ELSE "A_write"

\* variant of main that goes on to the groups whatever the query returned
main_fetched_any(rs, next) == next

\* main, `if not rows: ... return`: the run ends with the 'no data' message when
\* the query returned nothing, and goes on to `next` otherwise
main_fetched(rs, next) == IF rs = <<>> THEN "nodata" ELSE next

-----------------------------------------------------------------------------
(* Actions of the processing script *)

\* main, lines 420-439: load the metadata, fetch the rows
P_Load ==
  /\ impl = "processing" /\ pc = "start"
  /\ events' = IF Selected("offsets") THEN _load_events(catalog) ELSE <<>>
  /\ stable_conf' = IF Selected("detrend") THEN _load_stable(stable) ELSE <<>>
  /\ pc' = main_fetched(rows, "P_groups")
  /\ grp' = 1
  /\ UNCHANGED <<impl, mad_thresh, rows, catalog, stable, analysis, include_D, events_map,
                 cncecu, dndedu, a_i, a_idx, a_cum, a_added, onoeou, wide, long>>

\* main, lines 476-596: the body of the loop over the groups
P_Group ==
  /\ impl = "processing" /\ pc = "P_groups"
  /\ \E keys \in {GroupKeys(rows)} : \E key \in {keys[grp]} :
     \E c_map \in {IF Selected("offsets") THEN _main_offsets(rows, key, events)
                   ELSE <<>>} :
     \E d_map \in {IF Selected("detrend") THEN _main_detrend(rows, key, stable_conf)
                   ELSE <<>>} :
     \E o_map \in {IF Selected("outliers") THEN _main_outliers(rows, key, mad_thresh)
                   ELSE <<>>} :
     \E w_rows \in {_main_rows(rows, key, c_map, d_map, o_map)} :
         /\ wide' = wide \o w_rows
         /\ long' = long \o _main_long(w_rows)
         /\ cncecu' = Keyed(key, c_map) @@ cncecu
         /\ dndedu' = Keyed(key, d_map) @@ dndedu
         /\ onoeou' = Keyed(key, o_map) @@ onoeou
         /\ grp' = grp + 1
         /\ pc' = IF grp < Len(keys) THEN "P_groups" ELSE "P_done"
  /\ UNCHANGED <<impl, mad_thresh, rows, catalog, stable, analysis, include_D, events, events_map,
                 stable_conf, a_i, a_idx, a_cum, a_added>>

-----------------------------------------------------------------------------
(* Actions of the analysis script *)

A_GroupRows == rows_by_key(rows, GroupKeys(rows)[grp])
A_GroupEvs == apply_offsets_evs(events_map, GroupKeys(rows)[grp][1], include_D)

\* main, lines 296-314: load the metadata, fetch and group the rows
A_Load ==
  /\ impl = "analysis" /\ pc = "start"
  /\ stable_conf' = load_stable(stable)
  /\ events_map' = IF load_events_raises(catalog) THEN <<>> ELSE load_events(catalog)
  /\ pc' = IF load_events_raises(catalog) THEN "raised_load"
           ELSE main_fetched(rows, A_PhaseAfter("start"))
  /\ grp' = 1
  /\ a_i' = 1 /\ a_idx' = 0 /\ a_cum' = ZeroTriple
  /\ a_added' = <<>>
  /\ UNCHANGED <<impl, mad_thresh, rows, catalog, stable, analysis, include_D, events,
                 cncecu, dndedu, onoeou, wide, long>>

\* apply_offsets, lines 160-164: the while loop takes the event under the cursor
A_SweepEvent ==
  /\ impl = "analysis" /\ pc = "A_sweep"
  /\ a_idx < Len(A_GroupEvs)
  /\ A_GroupEvs[a_idx + 1].date <= A_GroupRows[a_i].date
  /\ a_cum' = apply_offsets_add(a_cum, A_GroupEvs[a_idx + 1])
  /\ a_idx' = a_idx + 1
  /\ a_added' = Append(a_added, a_idx)
  /\ UNCHANGED <<impl, mad_thresh, pc, rows, catalog, stable, analysis, include_D, events,
                 events_map, stable_conf, cncecu, dndedu, grp, a_i, onoeou, wide, long>>

SweepStops ==
  IF a_idx < Len(A_GroupEvs)
  THEN ~(A_GroupEvs[a_idx + 1].date <= A_GroupRows[a_i].date)
  ELSE TRUE

\* apply_offsets, line 165: the while loop is over, the date gets the accumulators;
\* then the next date, the next group (lines 156-158) or the end of the sweep
A_SweepDate ==
  /\ impl = "analysis" /\ pc = "A_sweep"
  /\ SweepStops
  /\ LET key == GroupKeys(rows)[grp]
     IN  cncecu' = Put(cncecu, <<key[1], key[2], A_GroupRows[a_i].date>>, a_cum)
  /\ IF a_i < Len(A_GroupRows)
     THEN /\ a_i' = a_i + 1
          /\ UNCHANGED <<pc, grp, a_idx, a_cum, a_added>>
     ELSE /\ a_i' = 1 /\ a_idx' = 0 /\ a_cum' = ZeroTriple /\ a_added' = <<>>
          /\ grp' = IF grp < Len(GroupKeys(rows)) THEN grp + 1 ELSE 1
          /\ pc' = IF grp < Len(GroupKeys(rows)) THEN "A_sweep" ELSE A_PhaseAfter("A_sweep")
  /\ UNCHANGED <<impl, mad_thresh, rows, catalog, stable, analysis, include_D, events,
                 events_map, stable_conf, dndedu, onoeou, wide, long>>

\* main, lines 324-334: the detrend of one group; an exception of detrend_M2 ends
\* the run there
A_Detrend ==
  /\ impl = "analysis" /\ pc = "A_detrend"
  /\ LET keys == GroupKeys(rows)
         key == keys[grp]
     IN  IF main_detrend_raises(rows, key, stable_conf)
         THEN /\ pc' = "raised_group"
              /\ UNCHANGED <<dndedu, grp>>
         ELSE /\ dndedu' = Keyed(key, main_detrend(rows, key, stable_conf)) @@ dndedu
              /\ grp' = IF grp < Len(keys) THEN grp + 1 ELSE 1
              /\ pc' = IF grp < Len(keys) THEN "A_detrend"
                       ELSE A_PhaseAfter("A_detrend")
  /\ UNCHANGED <<impl, mad_thresh, rows, catalog, stable, analysis, include_D, events, events_map,
                 stable_conf, cncecu, a_i, a_idx, a_cum, a_added, onoeou, wide, long>>

\* main, lines 336-361: the outlier flags of one group
A_Outliers ==
  /\ impl = "analysis" /\ pc = "A_outliers"
  /\ LET keys == GroupKeys(rows)
         key == keys[grp]
     IN  /\ onoeou' = Keyed(key, main_outliers(rows, key, dndedu)) @@ onoeou
         /\ grp' = IF grp < Len(keys) THEN grp + 1 ELSE 1
         /\ pc' = IF grp < Len(keys) THEN "A_outliers" ELSE "A_write"
  /\ UNCHANGED <<impl, mad_thresh, rows, catalog, stable, analysis, include_D, events,
                 events_map, stable_conf, cncecu, dndedu, a_i, a_idx, a_cum, a_added,
                 wide, long>>

\* main, lines 363-383: time_series_analysis.csv is written
A_Write ==
  /\ impl = "analysis" /\ pc = "A_write"
  /\ wide' = main_write(rows, 1, cncecu, dndedu, onoeou)
  /\ pc' = "A_done"
  /\ UNCHANGED <<impl, mad_thresh, rows, catalog, stable, analysis, include_D, events,
                 events_map, stable_conf, cncecu, dndedu, onoeou, grp, a_i, a_idx,
                 a_cum, a_added, long>>

-----------------------------------------------------------------------------
(* Inputs of a run *)

Frame == "IGS20"

\* rows of one station, a series being a sequence of [date, n, e, u] in date order
MkRows(sta, ser) ==
  [i \in 1..Len(ser) |->
     [station |-> sta, date |-> ser[i].date, frame |-> Frame,
      n |-> ser[i].n, e |-> ser[i].e, u |-> ser[i].u]]

\* a series with a zero position on each date of S
FlatSeries(S) ==
  LET ds == SeqOfSet(S)
  IN  [i \in 1..Len(ds) |-> [date |-> ds[i], n |-> Zero, e |-> Zero, u |-> Zero]]

\* events.yaml entries: flag, target and N/E/U step in mm, on any date
EventKinds ==
  { [flag |-> "E", station |-> "ALL",  N |-> 10, E |-> 0, U |-> -3],
    [flag |-> "E", station |-> "PDEL", N |-> -4, E |-> 2, U |-> -1],
    [flag |-> "R", station |-> "PDEL", N |-> 10, E |-> 0, U |-> -3],
    [flag |-> "D", station |-> "PDEL", N |-> -4, E |-> 2, U |-> -1],
    [flag |-> "X", station |-> "ALL",  N |-> 10, E |-> 0, U |-> -3] }

EventPool ==
  { [flag |-> k.flag, date |-> d, station |-> k.station, N |-> k.N, E |-> k.E, U |-> k.U] :
      k \in EventKinds, d \in Dates }

Catalogs == UNION { [1..n -> EventPool] : n \in 0..MaxEvents }

\* --mad-thresh default
DefaultThresh == Int2R(4)

Idle ==
  /\ pc = "start"
  /\ events = <<>> /\ events_map = <<>> /\ stable_conf = <<>>
  /\ cncecu = <<>> /\ dndedu = <<>> /\ onoeou = <<>> /\ wide = <<>> /\ long = <<>>
  /\ grp = 1 /\ a_i = 1 /\ a_idx = 0 /\ a_cum = ZeroTriple /\ a_added = <<>>

\* the series of station PDEL in the offsets runs: the inner dates, or the two ends
SeriesChoices == { 2..(MaxDate - 1), {1, MaxDate} }

\* runs with --analysis offsets: station BVF1 has every date, PDEL some of them
InitOffsets ==
  /\ impl \in {"processing", "analysis"}
  /\ analysis = {"offsets"}
  /\ include_D \in (IF impl = "analysis" THEN BOOLEAN ELSE {FALSE})
  /\ catalog \in Catalogs
  /\ \E S \in SeriesChoices :
       rows = MkRows("BVF1", FlatSeries(Dates)) \o MkRows("PDEL", FlatSeries(S))
  /\ stable = <<>>
  /\ mad_thresh = DefaultThresh
  /\ Idle

NextOffsets == P_Load \/ P_Group \/ A_Load \/ A_SweepEvent \/ A_SweepDate \/ A_Write

SpecOffsets == InitOffsets /\ [][NextOffsets]_vars

-----------------------------------------------------------------------------
(* Inputs of the detrend runs *)

\* positions (n, e, u) in mm of an epoch; None is a NULL of the database
RawTriples ==
  << <<Int2R(5), Int2R(1), Zero>>,
     <<Int2R(12), None, Int2R(3)>>,
     <<Int2R(-7), Int2R(4), Int2R(2)>>,
     <<None, Int2R(2), Int2R(1)>> >>

\* the database stores metres
Metres(a) == IF IsNone(a) THEN None ELSE RDiv(a, Int2R(1000))

Epoch(d, t) == [date |-> d, n |-> Metres(t[1]), e |-> Metres(t[2]), u |-> Metres(t[3])]

\* the series that has, on each date d with f[d] > 0, the epoch RawTriples[f[d]]
SeriesOf(f) ==
  LET ds == SeqOfSet({d \in DOMAIN f : f[d] > 0})
  IN  [i \in 1..Len(ds) |-> Epoch(ds[i], RawTriples[f[ds[i]]])]

EpochDates == 1..MaxEpochs

Missing == [method |-> "", has_rw |-> FALSE, start |-> 0, end |-> 0,
            N |-> None, E |-> None, U |-> None, CN |-> None, CE |-> None, CU |-> None]

\* stable.yaml entries: two velocity models and every window inside the dates
VelocityEntries ==
  { [Missing EXCEPT !.method = "M1", !.N = Int2R(12), !.E = Int2R(-3), !.U = Zero,
                    !.CN = Zero, !.CE = Int2R(2), !.CU = Int2R(-1)],
    [Missing EXCEPT !.method = "M1", !.N = Int2R(-5), !.E = Int2R(4), !.U = Int2R(7),
                    !.CN = Int2R(3), !.CE = Zero, !.CU = Zero] }

WindowEntries ==
  { w \in { [Missing EXCEPT !.method = "M2", !.has_rw = TRUE, !.start = a, !.end = b] :
              a \in EpochDates, b \in EpochDates } : w.start <= w.end }

\* stable.yaml: empty, or one entry, for PDEL
StableChoices ==
  {<<>>} \cup { "PDEL" :> e : e \in VelocityEntries \cup WindowEntries }

\* runs with --analysis detrend: BVF1 has one epoch and no model, PDEL any series
InitDetrend ==
  /\ impl \in {"processing", "analysis"}
  /\ analysis = {"detrend"}
  /\ include_D = FALSE
  /\ catalog = <<>>
  /\ \E f \in [EpochDates -> 0..Len(RawTriples)] :
       rows = MkRows("BVF1", <<Epoch(1, RawTriples[1])>>) \o MkRows("PDEL", SeriesOf(f))
  /\ stable \in StableChoices
  /\ mad_thresh = DefaultThresh
  /\ Idle

NextDetrend == P_Load \/ P_Group \/ A_Load \/ A_Detrend \/ A_Write

SpecDetrend == InitDetrend /\ [][NextDetrend]_vars

-----------------------------------------------------------------------------
(* Inputs of the configuration runs *)

\* three complete epochs of a station on days 1..3, n rising by 2 mm a day
TrendRows(sta) ==
  MkRows(sta, [i \in 1..3 |-> Epoch(i, <<Int2R(2 * i), Int2R(1), Zero>>)])

\* one epoch of a station, on day 2
SingleRow(sta) == MkRows(sta, <<Epoch(2, RawTriples[1])>>)

\* two epochs of a station on day 1 and one on day 3; n = 5, 7, 9 mm
TwinRows(sta) ==
  MkRows(sta, <<Epoch(1, <<Int2R(5), Int2R(1), Zero>>),
                Epoch(1, <<Int2R(7), Int2R(1), Zero>>),
                Epoch(3, <<Int2R(9), Int2R(1), Zero>>)>>)

\* the rows of the two groups, one after the other or alternating
Alternate(a, b) == [i \in 1..(Len(a) + Len(b)) |->
                      IF i % 2 = 1 THEN a[(i + 1) \div 2] ELSE b[i \div 2]]

\* what the epoch query returns: nothing, one group, two groups in either order,
\* or a group with two epochs on one date
ConfigRows ==
  { <<>>,
    TrendRows("PDEL"),
    TrendRows("BVF1") \o TrendRows("PDEL"),
    TrendRows("PDEL") \o TrendRows("BVF1"),
    Alternate(TrendRows("PDEL"), TrendRows("BVF1")),
    SingleRow("BVF1") \o TrendRows("PDEL"),
    TwinRows("PDEL") }

\* stable.yaml entries: three complete ones, and four that are malformed
GoodVelocity == [Missing EXCEPT !.method = "M1", !.N = R(1461, 4), !.E = Zero, !.U = Zero,
                                !.CN = Zero, !.CE = Zero, !.CU = Zero]
GoodWindow == [Missing EXCEPT !.method = "M2", !.has_rw = TRUE, !.start = 1, !.end = 3]
TwinWindow == [Missing EXCEPT !.method = "M2", !.has_rw = TRUE, !.start = 1, !.end = 2]
NoWindow == [Missing EXCEPT !.method = "M2"]
OneBound == [Missing EXCEPT !.method = "M2", !.has_rw = TRUE, !.start = 1]
BadWindow == [Missing EXCEPT !.method = "M2", !.has_rw = TRUE, !.start = BadDate, !.end = 3]
NoVelocity == [Missing EXCEPT !.method = "M1"]

ConfigEntries == {GoodVelocity, GoodWindow, TwinWindow, NoWindow, OneBound, BadWindow, NoVelocity}

\* stable.yaml: an entry for none, one or both of the stations
ConfigStables == UNION { [S -> ConfigEntries] : S \in SUBSET {"PDEL", "BVF1"} }

\* events.yaml: a complete entry, alone or next to an entry without a date
GoodEvent == [flag |-> "E", date |-> 2, station |-> "PDEL", N |-> 10, E |-> 0, U |-> -3]
DatelessEvent == [flag |-> "E", date |-> NoDate, station |-> "BVF1", N |-> 5, E |-> 0, U |-> 0]

ConfigCatalogs == { <<>>, <<GoodEvent>>, <<GoodEvent, DatelessEvent>>,
                    <<DatelessEvent, GoodEvent>> }

\* runs with --analysis detrend or offsets,detrend on complete and malformed metadata
InitConfig ==
  /\ impl \in {"processing", "analysis"}
  /\ analysis \in {{"detrend"}, {"offsets", "detrend"}}
  /\ include_D = FALSE
  /\ catalog \in ConfigCatalogs
  /\ rows \in ConfigRows
  /\ stable \in ConfigStables
  /\ mad_thresh = DefaultThresh
  /\ Idle

NextConfig ==
  P_Load \/ P_Group \/ A_Load \/ A_SweepEvent \/ A_SweepDate \/ A_Detrend \/ A_Write

SpecConfig == InitConfig /\ [][NextConfig]_vars

-----------------------------------------------------------------------------
(* Inputs of the outlier runs *)

\* N values (mm) of a sample; None is a NULL of the database
SampleValues == {None, Zero, Int2R(1), Int2R(9)}

\* the N series of PDEL: MaxSamples - 1 or MaxSamples consecutive days, the first at 0
SampleSeries ==
  { <<Zero>> \o s :
      s \in UNION { [1..n -> SampleValues] : n \in (MaxSamples - 2)..(MaxSamples - 1) } }

\* the E series that goes with it: complete, or NULL on the second day
EastChoices == {Int2R(1), None}

SampledRows(ns, e2) ==
  [i \in 1..Len(ns) |->
     [date |-> i, n |-> Metres(ns[i]),
      e |-> IF i = 2 THEN Metres(e2) ELSE Metres(Int2R(1)),
      u |-> Metres(Int2R(2))]]

\* Scenario B: the N series (mm) of PDEL on ten consecutive days
ScenarioB == <<0, 1, 2, 3, 4, 100, 5, 6, 7, 8>>

ScenarioBRows ==
  [i \in 1..Len(ScenarioB) |->
     [date |-> i, n |-> Metres(Int2R(ScenarioB[i])), e |-> Zero, u |-> Zero]]

\* an N series (mm) with an even count of values whose two middle values differ
EvenCount == <<0, 0, 0, 2, 2, 9>>

EvenCountRows ==
  [i \in 1..Len(EvenCount) |->
     [date |-> i, n |-> Metres(Int2R(EvenCount[i])), e |-> Zero, u |-> Zero]]

\* the series PDEL can have in an outlier run
OutlierSeries ==
  { SampledRows(ns, e2) : ns \in SampleSeries, e2 \in EastChoices }
    \cup {ScenarioBRows, EvenCountRows}

\* stable.yaml of the outlier runs: a velocity of 1 mm a day in N for PDEL
DailyVelocity ==
  "PDEL" :> [Missing EXCEPT !.method = "M1", !.N = R(1461, 4), !.E = Zero, !.U = Zero,
                            !.CN = Zero, !.CE = Zero, !.CU = Zero]

\* (--analysis, stable.yaml) of the outlier runs
OutlierRuns ==
  { <<{"outliers"}, <<>>>>,
    <<{"detrend", "outliers"}, DailyVelocity>> }

\* --mad-thresh values tried
Thresholds == {R(7, 2), DefaultThresh}

\* runs with outliers selected: BVF1 has one epoch, PDEL a sampled series or Scenario B
InitOutliers ==
  /\ impl \in {"processing", "analysis"}
  /\ \E run \in OutlierRuns : analysis = run[1] /\ stable = run[2]
  /\ include_D = FALSE
  /\ catalog = <<>>
  /\ \E ser \in OutlierSeries :
       rows = MkRows("BVF1", <<Epoch(1, RawTriples[1])>>) \o MkRows("PDEL", ser)
  /\ mad_thresh \in (IF impl = "processing" THEN Thresholds ELSE {DefaultThresh})
  /\ Idle

NextOutliers == P_Load \/ P_Group \/ A_Load \/ A_Detrend \/ A_Outliers \/ A_Write

SpecOutliers == InitOutliers /\ [][NextOutliers]_vars

-----------------------------------------------------------------------------
(* Event Offset Calculator: properties *)

OffsetsDone == pc \in {"P_done", "A_write", "A_done"}

AllFlags == {k.flag : k \in EventKinds}

\* component-wise sum of the N/E/U magnitudes (mm) of the entries at the positions I
RECURSIVE MagSum(_, _)
MagSum(cat, I) ==
  IF I = {} THEN ZeroTriple
  ELSE LET i == CHOOSE j \in I : TRUE
           rest == MagSum(cat, I \ {i})
       IN  <<RAdd(rest[1], Int2R(cat[i].N)),
             RAdd(rest[2], Int2R(cat[i].E)),
             RAdd(rest[3], Int2R(cat[i].U))>>

\* the flag set the caller of the calculator filters with
CallerFlags == IF impl = "analysis" THEN allowed(include_D) ELSE AllFlags

\* positions of the catalog entries that target sta or the wildcard, with a flag in F
Applicable(cat, sta, F) ==
  {i \in 1..Len(cat) : cat[i].station \in {sta, "ALL"} /\ cat[i].flag \in F}

UpTo(cat, I, d) == {i \in I : cat[i].date <= d}

\* the offsets the running script computes for a group from the catalog cat
RunOffsets(cat, key) ==
  IF impl = "processing"
  THEN _main_offsets(rows, key, _load_events(cat))
  ELSE apply_offsets(rows_by_key(rows, key),
                     apply_offsets_evs(load_events(cat), key[1], include_D))

\* what the entries at the positions I add, in the unit of the running script
Contribution(cat, I) ==
  LET m == MagSum(cat, I)
  IN  IF impl = "processing" THEN m
      ELSE <<RDiv(m[1], Int2R(1000)), RDiv(m[2], Int2R(1000)), RDiv(m[3], Int2R(1000))>>

TripleSub(a, b) == <<RSub(a[1], b[1]), RSub(a[2], b[2]), RSub(a[3], b[3])>>

GroupDates(key) == DatesOf(RowsOfKey(rows, key))
KeySet == {GroupKeys(rows)[i] : i \in 1..Len(GroupKeys(rows))}
MinOf(S) == CHOOSE x \in S : \A y \in S : x <= y
MaxOf(S) == CHOOSE x \in S : \A y \in S : y <= x

\* C1: for every group and every date d of its series the calculator returns the
\* component-wise sum of the magnitudes of the events at or before d that match the
\* station or the wildcard (and the caller's flag set); (0,0,0) before the first one.
C1_OffsetsAreCumulativeSums ==
  \A k \in DOMAIN cncecu :
    cncecu[k] = MagSum(catalog,
                       UpTo(catalog, Applicable(catalog, k[1], CallerFlags), k[3]))

\* C2: with a single event, targeted at ALL, of N magnitude m at date D, every
\* station's cn is 0 before D and m (millimetres) from D on.
C2_WildcardEventInMillimetres ==
  (Len(catalog) = 1 /\ catalog[1].station = "ALL" /\ catalog[1].flag = "E") =>
    \A k \in DOMAIN cncecu :
      cncecu[k][1] = IF k[3] < catalog[1].date THEN Zero ELSE Int2R(catalog[1].N)

\* C3: a deformation event contributes only on request, an event whose flag is not
\* in the allowed set never: the offsets are those of the catalog without them.
C3_OnlyAllowedFlagsContribute ==
  OffsetsDone =>
    \A key \in KeySet :
      LET kept == SelectSeq(catalog, LAMBDA e : e.flag \in allowed(include_D))
      IN  \A d \in GroupDates(key) :
            cncecu[<<key[1], key[2], d>>] = RunOffsets(kept, key)[d]

SameDate(cat, I, D) == {i \in I : cat[i].date = D}

\* C4: all the applicable events (station or wildcard, caller's flags) that share a
\* date are added from that date on, and every ordering of the catalog gives the
\* same offsets.
C4_SameDateSummedOrderIrrelevant ==
  OffsetsDone =>
    \A key \in KeySet : \A d \in GroupDates(key) :
      /\ \A D \in Dates :
           LET same == SameDate(catalog, Applicable(catalog, key[1], CallerFlags), D)
               rest == [i \in 1..Len(catalog) |->
                          IF i \in same
                          THEN [catalog[i] EXCEPT !.N = 0, !.E = 0, !.U = 0]
                          ELSE catalog[i]]
           IN  TripleSub(cncecu[<<key[1], key[2], d>>], RunOffsets(rest, key)[d])
                 = IF D <= d THEN Contribution(catalog, same) ELSE ZeroTriple
      /\ \A p \in Permutations(1..Len(catalog)) :
           RunOffsets([i \in 1..Len(catalog) |-> catalog[p[i]]], key)[d]
             = cncecu[<<key[1], key[2], d>>]

\* C5: events after the last date of a series change none of its offsets; the
\* applicable events before its first date are all in the offset of the first date.
C5_LateIgnoredEarlyIncluded ==
  OffsetsDone =>
    \A key \in KeySet :
      LET first == MinOf(GroupDates(key))
          last == MaxOf(GroupDates(key))
          notLate == SelectSeq(catalog, LAMBDA e : e.date <= last)
          notEarly == SelectSeq(catalog, LAMBDA e : e.date >= first)
          early == {i \in Applicable(catalog, key[1], CallerFlags) : catalog[i].date < first}
      IN  /\ \A d \in GroupDates(key) :
               cncecu[<<key[1], key[2], d>>] = RunOffsets(notLate, key)[d]
          /\ TripleSub(cncecu[<<key[1], key[2], first>>], RunOffsets(notEarly, key)[first])
               = Contribution(catalog, early)

MagOf(e, c) == CASE c = "N" -> e.N [] c = "E" -> e.E [] c = "U" -> e.U

NonDecreasing(key, c) ==
  \A d1, d2 \in GroupDates(key) :
    d1 <= d2 => RLe(cncecu[<<key[1], key[2], d1>>][Comp2Ix(c)],
                    cncecu[<<key[1], key[2], d2>>][Comp2Ix(c)])
NonIncreasing(key, c) ==
  \A d1, d2 \in GroupDates(key) :
    d1 <= d2 => RLe(cncecu[<<key[1], key[2], d2>>][Comp2Ix(c)],
                    cncecu[<<key[1], key[2], d1>>][Comp2Ix(c)])

AllNonNeg(key, c) == \A i \in Applicable(catalog, key[1], CallerFlags) : MagOf(catalog[i], c) >= 0
AllNonPos(key, c) == \A i \in Applicable(catalog, key[1], CallerFlags) : MagOf(catalog[i], c) <= 0

\* C6 as stated: cn (ce, cu) is non-decreasing in date whenever the magnitudes of
\* the station's events share one sign.
C6_NonDecreasingWhenSameSign ==
  OffsetsDone =>
    \A key \in KeySet : \A c \in {"N", "E", "U"} :
      (AllNonNeg(key, c) \/ AllNonPos(key, c)) => NonDecreasing(key, c)

\* C6 amended: cn (ce, cu) is non-decreasing in date when the magnitudes of the
\* station's events are all >= 0 and non-increasing when they are all <= 0.
C6_MonotoneInSharedSign ==
  OffsetsDone =>
    \A key \in KeySet : \A c \in {"N", "E", "U"} :
      /\ AllNonNeg(key, c) => NonDecreasing(key, c)
      /\ AllNonPos(key, c) => NonIncreasing(key, c)

\* C6 witness: BVF1's cn rises and its cu falls along the series, one sign each
C6_Witness ==
  /\ OffsetsDone
  /\ LET key == <<"BVF1", Frame>>
     IN  /\ AllNonNeg(key, "N") /\ AllNonPos(key, "U")
         /\ \E d1, d2 \in GroupDates(key) :
              /\ d1 < d2
              /\ RLt(cncecu[<<key[1], key[2], d1>>][1], cncecu[<<key[1], key[2], d2>>][1])
              /\ RLt(cncecu[<<key[1], key[2], d2>>][3], cncecu[<<key[1], key[2], d1>>][3])

-----------------------------------------------------------------------------
(* Detrend Engine: properties *)

DetrendDone == pc \in {"P_done", "A_write", "A_done"}

HasModel(key, m) == key[1] \in DOMAIN stable_conf /\ stable_conf[key[1]].method = m

RowOn(key, d) ==
  LET own == RowsOfKey(rows, key)
  IN  own[CHOOSE i \in 1..Len(own) : own[i].date = d]

AllComplete(key) == \A d \in GroupDates(key) : Complete(RowOn(key, d))

\* the raw value the detrender of the running script is given (mm, or the stored metres)
RawSeen(key, d, c) ==
  IF impl = "processing" THEN ValAt(comp(rows, key, c), d)
  ELSE RawField(RowOn(key, d), c)

\* a configured mm quantity in the unit of the running script
InUnit(a) == IF impl = "processing" THEN a ELSE RDiv(a, Int2R(1000))

ConstantOf(key, c) ==
  LET conf == stable_conf[key[1]]
  IN  InUnit(CASE c = "N" -> conf.CN [] c = "E" -> conf.CE [] c = "U" -> conf.CU)

VelocityOf(key, c) ==
  LET conf == stable_conf[key[1]]
  IN  CASE c = "N" -> conf.N [] c = "E" -> conf.E [] c = "U" -> conf.U

Computed(key, d) == <<key[1], key[2], d>> \in DOMAIN dndedu
Detrended(key, d, c) == dndedu[<<key[1], key[2], d>>][Comp2Ix(c)]

\* C7: velocity detrend adds the constant: at t0, the first sample date, the
\* detrended value is raw(t0) + constant, for each of N, E and U.
C7_ConstantAddedAtReferenceEpoch ==
  DetrendDone =>
    \A key \in KeySet :
      HasModel(key, "M1") =>
        LET t0 == MinOf(GroupDates(key))
        IN  Complete(RowOn(key, t0)) =>
              \A c \in {"N", "E", "U"} :
                /\ Computed(key, t0)
                /\ Detrended(key, t0, c) = RAdd(RawSeen(key, t0, c), ConstantOf(key, c))

\* the stored raw value of a sample in mm
RawMM(key, d, c) == RMul(RawField(RowOn(key, d), c), Int2R(1000))

\* velocity times the days from t0 to d over 365.25
Secular(vel, t0, d) == RDiv(RMul(vel, Int2R(d - t0)), R(36525, 100))

\* C8: with constant 0 the velocity detrend of the processing script gives
\* raw(t) - velocity * days(t0, t) / 365.25 in mm for every sample, t0 being the
\* earliest sample date of the group (12 mm/yr takes 48 mm off after 1461 days).
C8_VelocityRemovedLinearly ==
  /\ _detrend_M1(<<[date |-> 1, v |-> Zero], [date |-> 1462, v |-> Int2R(48)]>>,
                 Int2R(12), Zero, 1)[2].v = Zero
  /\ (DetrendDone /\ impl = "processing") =>
       \A key \in KeySet :
         HasModel(key, "M1") =>
           \A c \in {"N", "E", "U"} : \A d \in GroupDates(key) :
             (ConstantOf(key, c) = Zero /\ ~IsNone(RawField(RowOn(key, d), c))) =>
               /\ Computed(key, d)
               /\ Detrended(key, d, c)
                    = RSub(RawMM(key, d, c),
                           Secular(VelocityOf(key, c), MinOf(GroupDates(key)), d))

\* C8 witness: a sample after t0 whose N was moved by the velocity, constant 0
C8_Witness ==
  /\ DetrendDone /\ impl = "processing"
  /\ LET key == <<"PDEL", Frame>>
     IN  /\ key \in KeySet /\ HasModel(key, "M1") /\ ConstantOf(key, "N") = Zero
         /\ \E d \in GroupDates(key) :
              /\ d > MinOf(GroupDates(key))
              /\ ~IsNone(RawField(RowOn(key, d), "N"))
              /\ Detrended(key, d, "N") # RawMM(key, d, "N")

WindowDates(key) ==
  {d \in GroupDates(key) :
     InWindow(d, stable_conf[key[1]].start, stable_conf[key[1]].end)}

\* C9: window-slope detrend with fewer than 2 samples in the window returns the
\* series unchanged: every date, with its input value.
C9_FewWindowSamplesPassThrough ==
  DetrendDone =>
    \A key \in KeySet :
      (HasModel(key, "M2") /\ AllComplete(key) /\ Cardinality(WindowDates(key)) < 2) =>
        \A d \in GroupDates(key) : \A c \in {"N", "E", "U"} :
          /\ Computed(key, d)
          /\ Detrended(key, d, c) = RawSeen(key, d, c)

RECURSIVE SumDetrended(_, _, _)
SumDetrended(key, S, c) ==
  IF S = {} THEN Zero
  ELSE LET d == CHOOSE x \in S : TRUE
       IN  RAdd(SumDetrended(key, S \ {d}, c), Detrended(key, d, c))

\* C10: after window-slope detrend with at least 2 samples in the window, the
\* mean of the detrended values of the samples in the window is 0.
C10_WindowMeanIsZero ==
  DetrendDone =>
    \A key \in KeySet :
      (HasModel(key, "M2") /\ AllComplete(key) /\ Cardinality(WindowDates(key)) >= 2) =>
        \A c \in {"N", "E", "U"} :
          /\ \A d \in WindowDates(key) : Computed(key, d) /\ ~IsNone(Detrended(key, d, c))
          /\ RDiv(SumDetrended(key, WindowDates(key), c),
                  Int2R(Cardinality(WindowDates(key)))) = Zero

-----------------------------------------------------------------------------
(* Outlier Detector: properties *)

OutliersDone == "outliers" \in analysis /\ pc \in {"P_done", "A_write", "A_done"}

Components == {"N", "E", "U"}

\* the series the running script hands to the detector for component c of a group
DetectorInput(key, c) ==
  IF impl = "processing" THEN comp(rows, key, c)
  ELSE main_series(rows, key, dndedu, c)

\* the detector of the running script with the threshold of the run
Detector(series) ==
  IF impl = "processing" THEN _flag_outliers(series, mad_thresh) ELSE main_mad(series)

RunThreshold == IF impl = "processing" THEN mad_thresh ELSE R(7, 2)

FlagAt(key, d, c) == onoeou[<<key[1], key[2], d>>][Comp2Ix(c)]

NonNull(series) == ValuesOf(SelectSeq(series, LAMBDA p : ~IsNone(p.v)))

AllFlagsZero(key, c) ==
  \A d \in GroupDates(key) :
    <<key[1], key[2], d>> \in DOMAIN onoeou /\ FlagAt(key, d, c) = 0

\* C12: a detection series with fewer than 5 non-null values gets flag 0 on every
\* date, whatever its values and the threshold.
C12_FewValuesNoFlags ==
  OutliersDone =>
    \A key \in KeySet : \A c \in Components :
      Len(NonNull(DetectorInput(key, c))) < 5 => AllFlagsZero(key, c)

\* the median: for an even count the mean of the two middle values
Median(vals) ==
  LET srt == sorted(vals)
      h == Len(vals) \div 2
  IN  IF Len(vals) % 2 = 1 THEN srt[h + 1]
      ELSE RDiv(RAdd(srt[h], srt[h + 1]), Int2R(2))

\* the median absolute deviation
MAD(vals) == Median(AbsDev(vals, Median(vals)))

\* C13: a detection series (of at least 5 values) whose MAD is 0 gets flag 0 on
\* every date, also where the value differs from the median.
C13_ZeroMadNoFlags ==
  OutliersDone =>
    \A key \in KeySet : \A c \in Components :
      LET vals == NonNull(DetectorInput(key, c))
      IN  (Len(vals) >= 5 /\ MAD(vals) = Zero) => AllFlagsZero(key, c)

\* C14: a detection series whose values are all equal gets flag 0 on every date,
\* whatever its length and the threshold.
C14_ConstantSeriesNoFlags ==
  OutliersDone =>
    \A key \in KeySet : \A c \in Components :
      LET vals == NonNull(DetectorInput(key, c))
      IN  (\A i, j \in 1..Len(vals) : vals[i] = vals[j]) => AllFlagsZero(key, c)

\* C14 witness: PDEL's constant U series of at least 5 samples got its flags while
\* the N series of the same run has a flagged date
C14_Witness ==
  /\ OutliersDone
  /\ LET key == <<"PDEL", Frame>>
     IN  /\ Cardinality(GroupDates(key)) >= 5
         /\ AllFlagsZero(key, "U")
         /\ \E d \in GroupDates(key) : FlagAt(key, d, "N") = 1

\* C15: with at least 5 non-null values and MAD > 0 the flag of a date is 1 exactly
\* when 0.6745 * |x - m| / MAD > threshold, m the median (mean of the two middle
\* values for an even count), MAD the median of |x - m|.
C15_FlagIffRobustScoreExceeds ==
  OutliersDone =>
    \A key \in KeySet : \A c \in Components :
      LET series == DetectorInput(key, c)
          vals == NonNull(series)
      IN  (Len(vals) >= 5 /\ MAD(vals) # Zero) =>
            \A d \in GroupDates(key) :
              LET x == ValAt(series, d)
              IN  ~IsNone(x) =>
                    (FlagAt(key, d, c) = 1
                       <=> RLt(RunThreshold,
                               RDiv(RMul(R(6745, 10000), RAbs(RSub(x, Median(vals)))),
                                    MAD(vals))))

-----------------------------------------------------------------------------
(* Result records: properties *)

Finished == pc \in {"P_done", "A_done"}

WideOf(sta) == SelectSeq(wide, LAMBDA r : r.station = sta)

\* C11: a station with no reference model configured has dn, de and du null in
\* the record of every one of its dates (so neither 0 nor the raw value).
C11_NoModelDetrendIsNull ==
  Finished =>
    \A key \in KeySet :
      key[1] \notin DOMAIN stable =>
        /\ {r.date : r \in {WideOf(key[1])[i] : i \in 1..Len(WideOf(key[1]))}}
             = GroupDates(key)
        /\ \A i \in 1..Len(wide) :
             wide[i].station = key[1] =>
               IsNone(wide[i].dn) /\ IsNone(wide[i].de) /\ IsNone(wide[i].du)

\* C11 witness: detrend ran, PDEL has a model and a detrended value, BVF1 has none
C11_Witness ==
  /\ Finished /\ "detrend" \in analysis
  /\ "PDEL" \in DOMAIN stable /\ "BVF1" \notin DOMAIN stable
  /\ \E i \in 1..Len(wide) : wide[i].station = "PDEL" /\ ~IsNone(wide[i].dn)
  /\ \E i \in 1..Len(wide) : wide[i].station = "BVF1" /\ ~IsNone(wide[i].n)

\* the rows of Scenario B are the series of PDEL of this run
IsScenarioB == RowsOfKey(rows, <<"PDEL", Frame>>) = MkRows("PDEL", ScenarioBRows)

\* C16: Scenario B: with the N series [0,1,2,3,4,100,5,6,7,8] of PDEL/IGS20 and
\* threshold 3.5, the record of the day of the 100 has on = 1, the nine others 0.
C16_ScenarioB ==
  (Finished /\ "outliers" \in analysis /\ IsScenarioB /\ RunThreshold = R(7, 2)) =>
    LET recs == WideOf("PDEL")
    IN  /\ Len(recs) = Len(ScenarioB)
        /\ \A i \in 1..Len(recs) :
             /\ recs[i].frame = "IGS20"
             /\ recs[i].on = (IF ScenarioB[recs[i].date] = 100 THEN Int2R(1) ELSE Int2R(0))

\* C16 witness: a finished run of Scenario B at threshold 3.5 with a flagged record
C16_Witness ==
  /\ Finished /\ "outliers" \in analysis /\ IsScenarioB /\ RunThreshold = R(7, 2)
  /\ \E i \in 1..Len(wide) : wide[i].station = "PDEL" /\ wide[i].on = Int2R(1)

\* the detrended values of component c are available for the group
HasDetrended(key, c) ==
  \E d \in GroupDates(key) : Computed(key, d) /\ ~IsNone(Detrended(key, d, c))

\* the raw series of component c as the running script holds it
RawSeries(key, c) ==
  IF impl = "processing" THEN comp(rows, key, c)
  ELSE LET srows == rows_by_key(rows, key)
       IN  [i \in 1..Len(srows) |-> [date |-> srows[i].date, v |-> RawField(srows[i], c)]]

\* the detrended series of component c (a date without a value holds None)
DetrendedSeries(key, c) ==
  LET ds == SeqOfSet(GroupDates(key))
  IN  [i \in 1..Len(ds) |->
         [date |-> ds[i],
          v |-> IF Computed(key, ds[i]) THEN Detrended(key, ds[i], c) ELSE None]]

\* C17: the detector is given the detrended series of a component when detrended
\* values are available for the station, and the raw series otherwise.
C17_DetrendedPreferred ==
  OutliersDone =>
    \A key \in KeySet : \A c \in Components :
      LET designated == IF HasDetrended(key, c) THEN DetrendedSeries(key, c)
                        ELSE RawSeries(key, c)
      IN  \A d \in GroupDates(key) : FlagAt(key, d, c) = Detector(designated)[d]

\* the outlier flags the running script computes for a group of the rows rs
RunFlags(rs, key) ==
  IF impl = "processing" THEN _main_outliers(rs, key, mad_thresh)
  ELSE main_outliers(rs, key,
                     IF Selected("detrend")
                     THEN Keyed(key, main_detrend(rs, key, stable_conf)) ELSE <<>>)

\* the rows with the value of component c on date d of a group replaced by v
WithValue(rs, key, d, c, v) ==
  [i \in 1..Len(rs) |->
     IF Key(rs[i]) = key /\ rs[i].date = d
     THEN CASE c = "N" -> [rs[i] EXCEPT !.n = v]
            [] c = "E" -> [rs[i] EXCEPT !.e = v]
            [] c = "U" -> [rs[i] EXCEPT !.u = v]
     ELSE rs[i]]

\* C18: the flags of a component do not depend on the other components: a run
\* whose rows differ in the value (or nullness) of another component on the
\* second date gives the same on (oe, ou) flags.
C18_NoCrossComponent ==
  OutliersDone =>
    \A key \in KeySet : \A c \in Components : \A other \in Components \ {c} :
      \A d \in GroupDates(key) \cap {2} : \A v \in EastChoices :
        LET alt == RunFlags(WithValue(rows, key, d, other, Metres(v)), key)
        IN  \A t \in GroupDates(key) : alt[t][Comp2Ix(c)] = FlagAt(key, t, c)

FieldsOf(r, computation) ==
  CASE computation = "offsets" -> <<r.cn, r.ce, r.cu>>
    [] computation = "detrend" -> <<r.dn, r.de, r.du>>
    [] computation = "outliers" -> <<r.on, r.oe, r.ou>>

\* the per-date results of a computation, as the running script holds them
ResultsOf(computation) ==
  CASE computation = "offsets" -> cncecu
    [] computation = "detrend" -> dndedu
    [] computation = "outliers" -> onoeou

\* component i of a computation has no value for the date of record r: the
\* analysis was not selected, the station has no model, the date is absent from
\* the results or the result is None
NoValue(r, computation, i) ==
  LET k == <<r.station, r.frame, r.date>>
      res == ResultsOf(computation)
  IN  \/ ~Selected(computation)
      \/ computation = "detrend" /\ r.station \notin DOMAIN stable
      \/ k \notin DOMAIN res
      \/ computation # "outliers" /\ IsNone(res[k][i])

\* C20: in every assembled record a field of a computation that produced no value
\* for the date (analysis not selected, station without model, date absent from
\* the results) holds the null marker, never the number 0.
C20_NotComputedIsNull ==
  Finished =>
    \A j \in 1..Len(wide) : \A computation \in {"offsets", "detrend", "outliers"} :
      \A i \in 1..3 :
        NoValue(wide[j], computation, i) =>
          /\ FieldsOf(wide[j], computation)[i] = Blank
          /\ FieldsOf(wide[j], computation)[i] # Zero

\* C20 witness: a finished detrend-only run: a record of PDEL has a detrended
\* value and blank offset and flag fields, a record of BVF1 (no model) has a
\* blank detrended value next to a raw value
C20_Witness ==
  /\ Finished /\ Selected("detrend") /\ ~Selected("offsets") /\ ~Selected("outliers")
  /\ \E j \in 1..Len(wide) :
       /\ wide[j].station = "PDEL" /\ ~IsNone(wide[j].dn)
       /\ wide[j].cn = Blank /\ wide[j].on = Blank
  /\ \E j \in 1..Len(wide) :
       /\ wide[j].station = "BVF1" /\ wide[j].dn = Blank /\ ~IsNone(wide[j].n)

-----------------------------------------------------------------------------
(* Long view: properties *)

\* the long rows of one (station, date, frame), series tag and component
LongOf(sta, d, frame, set, c) ==
  SelectSeq(long, LAMBDA x : /\ x.station = sta /\ x.date = d /\ x.frame = frame
                             /\ x.set = set /\ x.component = c)

WideField(w, set, c) ==
  CASE set = "raw" -> RawField(w, c)
    [] set = "detrended" -> (CASE c = "N" -> w.dn [] c = "E" -> w.de [] c = "U" -> w.du)

\* C21: the long view of the processing script has a 'raw' row of a component
\* exactly when the epoch's raw value is non-null, a 'detrended' row exactly when
\* the wide record's detrended value is non-null, and each row carries the value
\* of the wide record of the same (station, date, frame).
C21_LongRowIffValue ==
  (impl = "processing" /\ pc = "P_done") =>
    /\ \A i \in 1..Len(rows) : \A c \in Components :
         (LongOf(rows[i].station, rows[i].date, rows[i].frame, "raw", c) # <<>>)
           <=> ~IsNone(RawField(rows[i], c))
    /\ \A j \in 1..Len(wide) : \A c \in Components :
         (LongOf(wide[j].station, wide[j].date, wide[j].frame, "detrended", c) # <<>>)
           <=> ~IsNone(WideField(wide[j], "detrended", c))
    /\ \A k \in 1..Len(long) :
         \E j \in 1..Len(wide) :
           /\ wide[j].station = long[k].station /\ wide[j].date = long[k].date
           /\ wide[j].frame = long[k].frame
           /\ long[k].value = WideField(wide[j], long[k].set, long[k].component)

\* the detrended half of C21 and the value agreement, which the script satisfies
LongDetrendedIffValue ==
  (impl = "processing" /\ pc = "P_done") =>
    /\ \A j \in 1..Len(wide) : \A c \in Components :
         (LongOf(wide[j].station, wide[j].date, wide[j].frame, "detrended", c) # <<>>)
           <=> ~IsNone(WideField(wide[j], "detrended", c))
    /\ \A i \in 1..Len(rows) : \A c \in Components :
         ~IsNone(RawField(rows[i], c)) =>
           LongOf(rows[i].station, rows[i].date, rows[i].frame, "raw", c) # <<>>

-----------------------------------------------------------------------------
(* Run outcomes: properties *)

\* the run is over: every group was processed, or an exception left main
Ended == pc \in {"P_done", "A_done", "raised_group"}

\* the processing of the group itself fails in the running script
GroupFails(key) ==
  /\ impl = "analysis" /\ Selected("detrend")
  /\ main_detrend_raises(rows, key, stable_conf)

\* the records written for a group
WideOfKey(key) == SelectSeq(wide, LAMBDA r : r.station = key[1] /\ r.frame = key[2])

\* C22: a failure while processing one group is caught (no exception leaves the
\* run), and every other group of the run still has a record for each of its dates.
C22_GroupFailureContained ==
  Ended =>
    /\ pc # "raised_group"
    /\ \A key \in KeySet :
         ~GroupFails(key) => {r.date : r \in Range(WideOfKey(key))} = GroupDates(key)

\* runs in which no group fails produce the records of every group
RecordsWhenNoFailure ==
  (Ended /\ \A key \in KeySet : ~GroupFails(key)) =>
    \A key \in KeySet : {r.date : r \in Range(WideOfKey(key))} = GroupDates(key)

\* a reference-model entry that names its method's fields: a window with both
\* bounds as dates, or a velocity entry with N, E, U, CN, CE and CU
WellFormedModel(e) ==
  \/ /\ MethodOf(e) = "M2" /\ e.has_rw /\ e.start > 0 /\ e.end > 0
  \/ /\ MethodOf(e) = "M1"
     /\ \A v \in {e.N, e.E, e.U, e.CN, e.CE, e.CU} : ~IsNone(v)

WellFormedEvent(e) == e.date # NoDate

\* the loaded form of a well-formed reference-model entry
LoadedModel(e) == IF MethodOf(e) = "M2" THEN StableM2(e.start, e.end) ELSE StableM1(e)

\* the events the running script holds after the load, whatever their order
LoadedEvents ==
  IF impl = "processing" THEN {[e EXCEPT !.N = e.N.n, !.E = e.E.n, !.U = e.U.n] :
                                 e \in Range(events)}
  ELSE UNION { {[flag |-> e.flag, date |-> e.date, station |-> sta,
                 N |-> e.N.n, E |-> e.E.n, U |-> e.U.n] : e \in Range(events_map[sta])} :
               sta \in DOMAIN events_map }

\* the load is over and its catalog was requested (the processing script reads
\* events.yaml for offsets and stable.yaml for detrend only)
Loaded(a) == pc # "start" /\ (impl = "analysis" \/ Selected(a))

\* C23: a malformed event or reference-model entry is skipped: the load does not
\* end the run, every well-formed entry of the same catalog is loaded, and no
\* malformed entry is.
C23_MalformedEntrySkipped ==
  /\ pc # "raised_load"
  /\ Loaded("detrend") =>
       \A sta \in DOMAIN stable :
         IF WellFormedModel(stable[sta])
         THEN sta \in DOMAIN stable_conf /\ stable_conf[sta] = LoadedModel(stable[sta])
         ELSE sta \notin DOMAIN stable_conf
  /\ Loaded("offsets") =>
       LoadedEvents = {catalog[i] : i \in {j \in 1..Len(catalog) : WellFormedEvent(catalog[j])}}

\* the loads of catalogs whose entries are all well-formed keep every entry
WellFormedCatalogsLoaded ==
  /\ (\A i \in 1..Len(catalog) : WellFormedEvent(catalog[i])) =>
       /\ pc # "raised_load"
       /\ Loaded("offsets") => LoadedEvents = Range(catalog)
  /\ ((\A sta \in DOMAIN stable : WellFormedModel(stable[sta])) /\ Loaded("detrend")) =>
       stable_conf = [sta \in DOMAIN stable |-> LoadedModel(stable[sta])]

\* C24: when the epoch query returns no epochs the run ends with the 'no data'
\* outcome, without an exception and without a record; when it returns an epoch
\* the run never ends with that outcome.
C24_NoDataOutcome ==
  /\ (rows = <<>> /\ pc \notin {"start", "raised_load"}) =>
       pc = "nodata" /\ wide = <<>> /\ long = <<>>
  /\ rows # <<>> => pc # "nodata"

\* C24 witness: a run on an empty query result has ended with 'no data'
C24_Witness == rows = <<>> /\ pc = "nodata" /\ stable # <<>> /\ catalog # <<>>

-----------------------------------------------------------------------------
(* Independence of the groups: properties *)

\* the records the running script writes for a group when the query returns the
\* rows of that group only (none when the group's own detrend raises)
RunAlone(key) ==
  LET rs == RowsOfKey(rows, key)
  IN  IF impl = "processing"
      THEN _main_rows(rs, key,
                      IF Selected("offsets") THEN _main_offsets(rs, key, events) ELSE <<>>,
                      IF Selected("detrend") THEN _main_detrend(rs, key, stable_conf)
                      ELSE <<>>,
                      IF Selected("outliers") THEN _main_outliers(rs, key, mad_thresh)
                      ELSE <<>>)
      ELSE IF Selected("detrend") /\ main_detrend_raises(rs, key, stable_conf) THEN <<>>
      ELSE LET cmap == IF Selected("offsets")
                       THEN Keyed(key, apply_offsets(rows_by_key(rs, key),
                                         apply_offsets_evs(events_map, key[1], include_D)))
                       ELSE <<>>
               dmap == IF Selected("detrend")
                       THEN Keyed(key, main_detrend(rs, key, stable_conf)) ELSE <<>>
               omap == IF Selected("outliers")
                       THEN Keyed(key, main_outliers(rs, key, dmap)) ELSE <<>>
           IN  main_rows(rs, key, cmap, dmap, omap)

\* C25: the records of a group (offsets, detrended values, flags) are those of
\* the run on that group alone, whatever other groups the query returned and in
\* whatever order their rows came.
C25_GroupsIndependent ==
  Ended => \A key \in KeySet : WideOfKey(key) = RunAlone(key)

\* in runs in which no group fails every group has the records of its run alone
IndependentWhenNoFailure ==
  (Ended /\ \A key \in KeySet : ~GroupFails(key)) =>
    \A key \in KeySet : WideOfKey(key) = RunAlone(key)

-----------------------------------------------------------------------------
(* Cursor sweep of apply_offsets: properties *)

\* the accumulators after the first k events of the list were added
RECURSIVE SumFirst(_, _)
SumFirst(evs, k) ==
  IF k = 0 THEN ZeroTriple ELSE apply_offsets_add(SumFirst(evs, k - 1), evs[k])

\* accumulators (m) in the unit of the catalog (mm)
InMM(t) == <<RMul(t[1], Int2R(1000)), RMul(t[2], Int2R(1000)), RMul(t[3], Int2R(1000))>>

\* the per-date recomputation on the allowed events filed under `stations`
Recomputed(sta, d, stations) ==
  _compute_offsets_for_station_date(
      _load_events(SelectSeq(catalog, LAMBDA e : /\ e.flag \in allowed(include_D)
                                                /\ e.station \in stations)),
      sta, d)

\* the (station, frame, date) keys whose date the sweep has passed
Swept ==
  IF pc = "A_sweep"
  THEN {<<r.station, r.frame, r.date>> :
          r \in {q \in Range(rows) : \E g \in 1..(grp - 1) : Key(q) = GroupKeys(rows)[g]}}
       \cup {<<A_GroupRows[i].station, A_GroupRows[i].frame, A_GroupRows[i].date>> :
               i \in 1..(a_i - 1)}
  ELSE {<<r.station, r.frame, r.date>> : r \in Range(rows)}

SweepRuns == impl = "analysis" /\ Selected("offsets") /\ pc \notin {"start", "nodata", "raised_load"}

\* the cursor advances one event at a time, never back, so that each event of the
\* list is added once at most, and only events at or before the date in hand
CursorForwardOnly ==
  (SweepRuns /\ pc = "A_sweep") =>
    /\ a_i \in 1..Len(A_GroupRows)
    /\ a_idx \in 0..Len(A_GroupEvs)
    /\ a_added = [i \in 1..a_idx |-> i - 1]
    /\ a_cum = SumFirst(A_GroupEvs, a_idx)
    /\ \A i \in 1..a_idx : A_GroupEvs[i].date <= A_GroupRows[a_i].date

\* C26: in the sweep of apply_offsets the cursor only moves forward, each allowed
\* event is added at most once, the sweep ends after the last date, and the value
\* stored for each date passed is the per-date recomputation: the sum of all
\* allowed events of that station (named or wildcard) at or before the date.
C26_SweepEqualsRecomputation ==
  SweepRuns =>
    /\ CursorForwardOnly
    /\ DOMAIN cncecu = Swept
    /\ \A k \in DOMAIN cncecu : InMM(cncecu[k]) = Recomputed(k[1], k[3], {k[1], "ALL"})

\* the sweep equals the recomputation on the events that name the station
SweepEqualsNamedEvents ==
  SweepRuns =>
    /\ CursorForwardOnly
    /\ DOMAIN cncecu = Swept
    /\ \A k \in DOMAIN cncecu : InMM(cncecu[k]) = Recomputed(k[1], k[3], {k[1]})

-----------------------------------------------------------------------------
(* Window-slope detrend: properties *)

RMean(s) == RDiv(RSum(s), Int2R(Len(s)))

\* ordinary least squares slope of y on x by centred sums; 0 when every x is equal
OLSSlope(x, y) ==
  LET mx == RMean(x)
      my == RMean(y)
      sxy == RSum([i \in 1..Len(x) |-> RMul(RSub(x[i], mx), RSub(y[i], my))])
      sxx == RSum([i \in 1..Len(x) |-> RMul(RSub(x[i], mx), RSub(x[i], mx))])
  IN  IF sxx = Zero THEN Zero ELSE RDiv(sxy, sxx)

\* days since window.start
DayOffset(key, d) == Int2R(d - stable_conf[key[1]].start)

WindowSeq(key) == SeqOfSet(WindowDates(key))

\* the OLS slope of the input values over the samples inside the window
WindowSlope(key, c) ==
  LET W == WindowSeq(key)
  IN  OLSSlope([i \in 1..Len(W) |-> DayOffset(key, W[i])],
               [i \in 1..Len(W) |-> RawSeen(key, W[i], c)])

\* input - slope * (days since window.start)
Adjusted(key, d, c) ==
  RSub(RawSeen(key, d, c), RMul(WindowSlope(key, c), DayOffset(key, d)))

WindowMeanAdjusted(key, c) ==
  LET W == WindowSeq(key)
  IN  RMean([i \in 1..Len(W) |-> Adjusted(key, W[i], c)])

\* the group is detrended by a window that holds at least 2 of its samples
WindowDetrended(key) ==
  HasModel(key, "M2") /\ AllComplete(key) /\ Cardinality(WindowDates(key)) >= 2

\* C27: window-slope detrend with at least 2 samples in the window gives every
\* sample of the series, inside the window or not, the value
\* input - slope * (days since window.start) - (window mean of the adjusted values),
\* with the OLS slope of the window samples.
C27_WholeSeriesAdjusted ==
  DetrendDone =>
    \A key \in KeySet :
      WindowDetrended(key) =>
        \A d \in GroupDates(key) : \A c \in {"N", "E", "U"} :
          /\ Computed(key, d)
          /\ Detrended(key, d, c) = RSub(Adjusted(key, d, c), WindowMeanAdjusted(key, c))

\* the samples of a group, in the order the detrender of the running script walks
Samples(key) == IF impl = "processing" THEN RowsOfKey(rows, key) ELSE rows_by_key(rows, key)

\* the input value of sample i, in the unit of the running script
SampleValue(key, i, c) ==
  IF impl = "processing" THEN comp(rows, key, c)[i].v ELSE RawField(Samples(key)[i], c)

\* what the detrender of the running script returns for sample i
SampleDetrended(key, i, c) ==
  IF impl = "processing"
  THEN _detrend_M2(comp(rows, key, c),
                   stable_conf[key[1]].start, stable_conf[key[1]].end)[i].v
  ELSE detrend_M2(Samples(key), stable_conf[key[1]].start,
                  stable_conf[key[1]].end)[Samples(key)[i].date][Comp2Ix(c)]

\* positions of the samples inside the window
WindowSamples(key) ==
  {i \in 1..Len(Samples(key)) :
     InWindow(Samples(key)[i].date, stable_conf[key[1]].start, stable_conf[key[1]].end)}

\* at least 2 samples in the window, all on one date: n * Sxx - Sx * Sx = 0
ZeroDenominator(key) ==
  /\ HasModel(key, "M2") /\ stable_conf[key[1]].start > 0 /\ stable_conf[key[1]].end > 0
  /\ AllComplete(key)
  /\ Cardinality(WindowSamples(key)) >= 2
  /\ Cardinality(WindowDates(key)) = 1

WindowMean(key, c) ==
  LET W == SeqOfSet(WindowSamples(key))
  IN  RMean([k \in 1..Len(W) |-> SampleValue(key, W[k], c)])

SlopeAfter(key, c) ==
  LET W == SeqOfSet(WindowSamples(key))
  IN  OLSSlope([k \in 1..Len(W) |-> DayOffset(key, Samples(key)[W[k]].date)],
               [k \in 1..Len(W) |-> SampleDetrended(key, W[k], c)])

\* the trend inside the window is removed: every window sample has a value, the
\* recorded one, and the OLS slope of these values is 0
SlopeRemoved(key) ==
  \A c \in {"N", "E", "U"} :
    /\ \A i \in WindowSamples(key) :
         /\ Computed(key, Samples(key)[i].date)
         /\ ~IsNone(SampleDetrended(key, i, c))
    /\ \A d \in WindowDates(key) :
         \E i \in WindowSamples(key) :
           Samples(key)[i].date = d /\ Detrended(key, d, c) = SampleDetrended(key, i, c)
    /\ SlopeAfter(key, c) = Zero

\* C28: after window-slope detrend with at least 2 window samples and a nonzero
\* OLS denominator (two window dates), the least-squares slope of the detrended
\* values over the samples inside the window is 0.
C28_WindowSlopeRemoved ==
  DetrendDone =>
    \A key \in KeySet : WindowDetrended(key) => SlopeRemoved(key)

\* the same for groups of at least 3 samples, each on a date of its own
SlopeRemovedFromThreeSamples ==
  DetrendDone =>
    \A key \in KeySet :
      (WindowDetrended(key) /\ Cardinality(GroupDates(key)) >= 3
         /\ Cardinality(GroupDates(key)) = Len(Samples(key))) => SlopeRemoved(key)

\* a window detrend that removed a slope other than 0 from 3 samples
SlopeRemovedSeen ==
  /\ DetrendDone
  /\ \E key \in KeySet :
       /\ WindowDetrended(key) /\ Cardinality(GroupDates(key)) >= 3
       /\ WindowSlope(key, "N") # Zero
       /\ SlopeRemoved(key)

-----------------------------------------------------------------------------
(* Incomplete reference-model entries: properties *)

\* the entry lacks a field its method requires: a window-slope entry without
\* reference_window or without one of its bounds, a velocity entry without one
\* of N, E, U, CN, CE, CU
LacksFields(e) ==
  \/ MethodOf(e) = "M2" /\ (~e.has_rw \/ e.start = 0 \/ e.end = 0)
  \/ MethodOf(e) = "M1" /\ \E v \in {e.N, e.E, e.U, e.CN, e.CE, e.CU} : IsNone(v)

\* the records of the station carry a detrended value
HasDetrendedValue(sta) ==
  \E r \in Range(wide) : r.station = sta /\ (r.dn # Blank \/ r.de # Blank \/ r.du # Blank)

\* C30: an entry of stable.yaml that lacks a field its method requires is never
\* completed (zero velocities, zero constants, all-samples window) and used: no
\* record of its station carries a detrended value.
C30_IncompleteEntryNotUsed ==
  \A sta \in DOMAIN stable : LacksFields(stable[sta]) => ~HasDetrendedValue(sta)

====
